---- MODULE Spec2Model ----
(***************************************************************************)
(* Model of ml3d/torch/pipelines/semantic_segmentation_multi_head.py:      *)
(*   - CustomDistributedSampler: the per-head batch table built by         *)
(*     __init__ and the per-epoch permute / pad / shard / flatten of       *)
(*     __iter__, one sampler object per replica (rank);                    *)
(*   - SemanticSegmentationMultiHead.update_tests and the streaming test   *)
(*     loop of run_test_1 that consumes its results;                       *)
(*   - the epoch loop of run_train, one process per replica, with the      *)
(*     collectives of torch.distributed it calls;                          *)
(*   - run_train as a whole on one process: its setup, load_ckpt, the      *)
(*     epochs taken one at a time with save_ckpt, and the checkpoint       *)
(*     directory that a later run finds;                                   *)
(*   - run_inference on one cloud.                                         *)
(* Python lists and numpy arrays are TLA+ sequences (1-based); every index *)
(* taken from the code is 0-based and shifted by one where it is used.     *)
(***************************************************************************)
EXTENDS Integers, Sequences, FiniteSets, TLC

\* ------------------------------------------------------------------ bounds
MaxLen == 12     \* len(dataset) ranges over 0..MaxLen
MaxHeads == 2    \* num_heads ranges over 1..MaxHeads
MaxBatch == 3    \* batch_size ranges over 1..MaxBatch
MaxReplicas == 3 \* num_replicas ranges over 1..MaxReplicas
MaxEpoch == 1    \* set_epoch is called with 0..MaxEpoch
MaxClouds == 2   \* the test split holds 1..MaxClouds clouds
MaxPoints == 2   \* a possibility map holds 0..MaxPoints points
MaxSteps == 3    \* test_loader yields at most MaxSteps batches
TrainBatches == 1 \* len(train_loader) on every replica
ValidBatches == 1 \* len(valid_loader) on every replica
MaxRuns == 2      \* run_train is started at most MaxRuns times on one directory

VARIABLES
    \* arguments of CustomDistributedSampler(...), the same on every replica
    dataset_len, batch_size, num_heads, num_replicas, shuffle, seed,
    \* one sampler object per rank
    pc,               \* "new" | "ready" | "AssertionError" | "ValueError"
    indices_batched,  \* self.indices_batched: the table, a sequence of rows
    num_samples,      \* self.num_samples
    total_size,       \* self.total_size
    epoch,            \* self.epoch
    \* the last __iter__ call of each sampler since its epoch was set
    iter_status,      \* "none" | "ok" | "AssertionError"
    perm,             \* `indices` after lines 63-69 (the row order)
    padded,           \* `indices` after lines 71-74
    shard,            \* `indices` after line 79
    yielded,          \* the flat sequence handed to iter() at line 87
    \* the test sampler and the preprocessing (collaborators of update_tests)
    split,            \* sampler.split
    possibilities,    \* sampler.possibilities: per cloud, the weight of each point
                      \* in tenths (5 stands for the threshold 0.5)
    cloud_id,         \* sampler.cloud_id
    proj_inds,        \* per cloud, preprocess(...).get('proj_inds'): None or indices
    window,           \* inputs: the points of cloud_id covered by the batch in flight
    results,          \* results: the class the model predicts for the window
    \* the pipeline object
    curr_cloud_id, test_probs, test_labels, ori_test_probs, ori_test_labels,
    complete_infer, pbar_update,
    \* the loop of run_test_1
    tpc,              \* "fetch" | "update" | "consume" | "done" | "IndexError"
    steps,            \* batches fetched from test_loader
    saved,            \* the calls dataset.save_test_result received
    completions,      \* results appended since curr_cloud_id last changed
    handed,           \* what the update_tests call in progress gave update_probs
    \* run_train: the configuration, the same on every replica
    distributed,      \* self.distributed
    world_size,       \* dist.get_world_size(), 1 when not distributed
    grad_clip,        \* model.cfg.get('grad_clip_norm', -1) > 0
    save_ckpt_freq,   \* cfg.save_ckpt_freq
    \* run_train: one process per rank
    rpc,              \* position in the epoch loop, see Positions
    train_epoch,      \* `epoch` of the loop at line 562
    train_left,       \* batches train_loader has still to yield this epoch
    valid_left,       \* batches valid_loader has still to yield this epoch
    inputs,           \* the batch in hand: its head and whether its prediction
                      \* score tensor is empty
    losses,           \* self.losses: per head, the list of training losses
    valid_losses,     \* self.valid_losses
    metric_train,     \* self.metric_train: per head, the samples accumulated
    metric_val,       \* self.metric_val
    optim,            \* calls made so far: loss.backward, clip_grad_value_,
                      \* optimizer.step
    scheduler,        \* calls of scheduler.step made so far
    sampler_epoch,    \* the epoch set on train_sampler and on valid_sampler
    gather_arr,       \* gather_arr of line 647 (filled at rank 0 only)
    logs,             \* the (epoch, head) pairs save_logs wrote to the writer
    ckpts,            \* the epochs save_ckpt was called with
    handlers,         \* the ranks that added the log file handler (lines 444-451)
    \* run_train as a whole: the configuration of the runs
    run_distributed,  \* self.distributed
    dataset_sampler,  \* the dataset splits carry a sampler of their own
    max_epoch,        \* cfg.max_epoch
    ckpt_freq,        \* cfg.save_ckpt_freq
    \* the checkpoint directory: the files in it, one record per file
    disk,
    \* the run in progress
    ckpt_path,        \* model.cfg.ckpt_path: NoPath or the name of a file
    is_resume,        \* model.cfg.get('is_resume', True)
    run_pc,           \* "setup" | "load_ckpt" | "loop" | "done" | "hung"
                      \* | "NotImplementedError" | "FileNotFoundError"
    samplers_built,   \* the CustomDistributedSamplers and loaders exist
    start_ep,         \* what load_ckpt returned
    run_epoch,        \* `epoch` of the loop at line 562
    model_state,      \* model.state_dict(): the epochs trained into it
    optimizer_state,  \* optimizer.state_dict()
    scheduler_state,  \* scheduler.state_dict()
    loaded,           \* the checkpoint load_ckpt read, NoCkpt if none
    epochs_run,       \* the epochs this run has executed, in order
    saved_now,        \* the epochs this run called save_ckpt with
    runs,             \* runs started so far
    \* run_inference
    infer_pc,         \* "start" | "loop" | "returned" | "IndexError"
    infer_batches,    \* len(infer_loader)
    infer_left,       \* batches infer_loader has not yielded yet
    updates,          \* calls of update_tests made by run_inference
    returned          \* what run_inference returned

samplerVars == <<dataset_len, batch_size, num_heads, num_replicas, shuffle, seed,
                 pc, indices_batched, num_samples, total_size, epoch,
                 iter_status, perm, padded, shard, yielded>>

testVars == <<split, possibilities, cloud_id, proj_inds, window, results,
              curr_cloud_id, test_probs, test_labels, ori_test_probs, ori_test_labels,
              complete_infer, pbar_update, tpc, steps, saved, completions, handed>>

trainVars == <<distributed, world_size, grad_clip, save_ckpt_freq,
               rpc, train_epoch, train_left, valid_left, inputs,
               losses, valid_losses, metric_train, metric_val, optim, scheduler,
               sampler_epoch, gather_arr, logs, ckpts, handlers>>

runVars == <<run_distributed, dataset_sampler, max_epoch, ckpt_freq, disk,
             ckpt_path, is_resume, run_pc, samplers_built, start_ep, run_epoch,
             model_state, optimizer_state, scheduler_state, loaded, epochs_run,
             saved_now, runs>>

inferVars == <<infer_pc, infer_batches, infer_left, updates, returned>>

vars == <<samplerVars, testVars, trainVars, runVars, inferVars>>

Ranks == 0 .. (num_replicas - 1)

\* ------------------------------------------------------- python primitives
Min(a, b) == IF a < b THEN a ELSE b

\* math.ceil(a / b) for a >= 0, b > 0
Ceil(a, b) == (a + b - 1) \div b

\* list(range(n))
Range(n) == [i \in 1 .. n |-> i - 1]

\* s[:k] for k >= 0
Prefix(s, k) == SubSeq(s, 1, Min(k, Len(s)))

\* s[:-k] for k > 0
DropTail(s, k) == IF k >= Len(s) THEN << >> ELSE SubSeq(s, 1, Len(s) - k)

\* s[i::step] for i >= 0, step > 0
Stride(s, i, step) ==
    LET count == IF Len(s) > i THEN (Len(s) - i + step - 1) \div step ELSE 0
    IN  [k \in 1 .. count |-> s[i + (k - 1) * step + 1]]

\* np.array(s).reshape(-1, b) raises ValueError unless b divides len(s)
ReshapeOk(s, b) == Len(s) % b = 0

Reshape(s, b) == [j \in 1 .. (Len(s) \div b) |-> SubSeq(s, (j - 1) * b + 1, j * b)]

\* rows.flatten(): row-major
RECURSIVE Flatten(_)
Flatten(rows) ==
    IF rows = << >> THEN << >> ELSE Head(rows) \o Flatten(Tail(rows))

\* ------------------------------------------ CustomDistributedSampler.__init__
\* the construction without its precondition check
HeadsDivideUnchecked(n, h) == TRUE

\* the assertion of lines 43-45
HeadsDivide(n, h) == n % h = 0

\* line 47
DropCount(n, h, b) == (n \div h) % b

\* the slice taken without the `if drop_count` guard: indices[:-0] is empty
RetainedUnguarded(n, h, b) ==
    IF DropCount(n, h, b) # 0
    THEN DropTail(Range(n), DropCount(n, h, b) * h)
    ELSE << >>

\* lines 48-49
Retained(n, h, b) ==
    IF DropCount(n, h, b) # 0
    THEN DropTail(Range(n), DropCount(n, h, b) * h)
    ELSE Range(n)

\* heads cut as contiguous blocks of the index list instead of strides
HeadRowsContiguous(indices, i, h, b) ==
    Reshape(SubSeq(indices, i * (Len(indices) \div h) + 1,
                   (i + 1) * (Len(indices) \div h)), b)

\* line 52: the rows of head i
HeadRows(indices, i, h, b) == Reshape(Stride(indices, i, h), b)

\* lines 51-55: np.concatenate over the heads 0 .. h-1, in that order
RECURSIVE Blocks(_, _, _, _)
Blocks(indices, i, h, b) ==
    IF i >= h THEN << >>
    ELSE HeadRows(indices, i, h, b) \o Blocks(indices, i + 1, h, b)

BatchTable(n, h, b) == Blocks(Retained(n, h, b), 0, h, b)

TableOk(n, h, b) ==
    \A i \in 0 .. (h - 1) : ReshapeOk(Stride(Retained(n, h, b), i, h), b)

\* lines 57-58
NumSamples(rows, replicas, b) == Ceil(rows, replicas) * b

\* line 59
TotalSize(samples, replicas) == samples * replicas

SamplerInit(r) ==
    /\ pc[r] = "new"
    /\ IF ~HeadsDivide(dataset_len, num_heads)
       THEN /\ pc' = [pc EXCEPT ![r] = "AssertionError"]
            /\ UNCHANGED <<indices_batched, num_samples, total_size>>
       ELSE IF ~TableOk(dataset_len, num_heads, batch_size)
       THEN /\ pc' = [pc EXCEPT ![r] = "ValueError"]
            /\ UNCHANGED <<indices_batched, num_samples, total_size>>
       ELSE LET table == BatchTable(dataset_len, num_heads, batch_size)
                samples == NumSamples(Len(table), num_replicas, batch_size)
            IN  /\ pc' = [pc EXCEPT ![r] = "ready"]
                /\ indices_batched' = [indices_batched EXCEPT ![r] = table]
                /\ num_samples' = [num_samples EXCEPT ![r] = samples]
                /\ total_size' = [total_size EXCEPT ![r] = TotalSize(samples, num_replicas)]
    /\ UNCHANGED <<dataset_len, batch_size, num_heads, num_replicas, shuffle, seed,
                   epoch, iter_status, perm, padded, shard, yielded>>
    /\ UNCHANGED <<testVars, trainVars, runVars, inferVars>>

\* ------------------------------------------ CustomDistributedSampler.__iter__
\* One draw of the torch.Generator. The generator is a deterministic function
\* of its state; it is modelled by a full-period linear congruential
\* generator on 16 states, seeded by manual_seed.
NextRand(x) == (5 * x + 3) % 16

\* torch.randperm(n, generator=g) on the CPU: for i in 0 .. n-2 draw
\* z = random() % (n - i) and swap positions i and i + z.
RECURSIVE Shuffled(_, _, _)
Shuffled(s, i, x) ==
    IF i + 1 >= Len(s) THEN s
    ELSE LET x1 == NextRand(x)
             j == i + (x1 % (Len(s) - i))
             swapped == [s EXCEPT ![i + 1] = s[j + 1], ![j + 1] = s[i + 1]]
         IN  Shuffled(swapped, i + 1, x1)

RandPerm(n, s) == Shuffled(Range(n), 0, s % 16)

\* a seed that also depends on the rank
PermSeedRank(r) == seed + epoch[r] + r

\* line 65: g.manual_seed(self.seed + self.epoch)
PermSeed(r) == seed + epoch[r]

\* lines 63-69
RowOrder(r) ==
    IF shuffle
    THEN RandPerm(Len(indices_batched[r]), PermSeed(r))
    ELSE Range(Len(indices_batched[r]))

\* lines 71-74
Pad(indices, replicas) ==
    IF Len(indices) % replicas # 0
    THEN indices \o Prefix(indices, replicas - (Len(indices) % replicas))
    ELSE indices

\* contiguous blocks instead of stripes
SubsampleBlock(indices, rank, replicas) ==
    SubSeq(indices, rank * (Len(indices) \div replicas) + 1,
           (rank + 1) * (Len(indices) \div replicas))

\* line 79: indices[self.rank::self.num_replicas]
Subsample(indices, rank, replicas) == Stride(indices, rank, replicas)

\* the selected rows flattened column by column
GatherColumnMajor(table, indices) ==
    IF indices = << >> THEN << >>
    ELSE Flatten([c \in 1 .. Len(table[1]) |->
                    [k \in 1 .. Len(indices) |-> table[indices[k] + 1][c]]])

\* line 81: self.indices_batched[indices].flatten()
Gather(table, indices) ==
    Flatten([k \in 1 .. Len(indices) |-> table[indices[k] + 1]])

IterateResult(r) ==
    /\ LET order == RowOrder(r)
           pad == Pad(order, num_replicas)
           sub == Subsample(pad, r, num_replicas)
           flat == Gather(indices_batched[r], sub)
       IN  /\ perm' = [perm EXCEPT ![r] = order]
           /\ padded' = [padded EXCEPT ![r] = pad]
           /\ IF Len(pad) * batch_size # total_size[r]           \* line 76
              THEN /\ iter_status' = [iter_status EXCEPT ![r] = "AssertionError"]
                   /\ shard' = [shard EXCEPT ![r] = << >>]
                   /\ yielded' = [yielded EXCEPT ![r] = << >>]
              ELSE IF Len(flat) # num_samples[r]                 \* lines 83-85
              THEN /\ iter_status' = [iter_status EXCEPT ![r] = "AssertionError"]
                   /\ shard' = [shard EXCEPT ![r] = sub]
                   /\ yielded' = [yielded EXCEPT ![r] = << >>]
              ELSE /\ iter_status' = [iter_status EXCEPT ![r] = "ok"]
                   /\ shard' = [shard EXCEPT ![r] = sub]
                   /\ yielded' = [yielded EXCEPT ![r] = flat]

\* a sampler whose __iter__ also advanced its own epoch
IterateAdvancing(r) ==
    /\ pc[r] = "ready"
    /\ IterateResult(r)
    /\ epoch' = [epoch EXCEPT ![r] = (epoch[r] + 1) % (MaxEpoch + 1)]
    /\ UNCHANGED <<dataset_len, batch_size, num_heads, num_replicas, shuffle, seed,
                   pc, indices_batched, num_samples, total_size>>
    /\ UNCHANGED <<testVars, trainVars, runVars, inferVars>>

Iterate(r) ==
    /\ pc[r] = "ready"
    /\ IterateResult(r)
    /\ UNCHANGED <<dataset_len, batch_size, num_heads, num_replicas, shuffle, seed,
                   pc, indices_batched, num_samples, total_size, epoch>>
    /\ UNCHANGED <<testVars, trainVars, runVars, inferVars>>

\* sampler.set_epoch(e): self.epoch = e. The iterator an earlier __iter__
\* returned belongs to the epoch that was set then; the record of it is dropped.
SetEpoch(r, e) ==
    /\ pc[r] = "ready"
    /\ epoch' = [epoch EXCEPT ![r] = e]
    /\ iter_status' = [iter_status EXCEPT ![r] = "none"]
    /\ perm' = [perm EXCEPT ![r] = << >>]
    /\ padded' = [padded EXCEPT ![r] = << >>]
    /\ shard' = [shard EXCEPT ![r] = << >>]
    /\ yielded' = [yielded EXCEPT ![r] = << >>]
    /\ UNCHANGED <<dataset_len, batch_size, num_heads, num_replicas, shuffle, seed,
                   pc, indices_batched, num_samples, total_size>>
    /\ UNCHANGED <<testVars, trainVars, runVars, inferVars>>

\* ------------------------------------- SemanticSegmentationMultiHead.update_tests
\* line 391, in tenths
end_threshold == 5

\* the weights a point of a possibility map takes: none, exactly the
\* threshold, above the threshold
Weights == {0, end_threshold, end_threshold + 1}

Max(a, b) == IF a > b THEN a ELSE b

\* list[i] and array[i] raise IndexError unless 0 <= i < len (ids are >= 0)
IndexOk(list, i) == 0 <= i /\ i < Len(list)

\* np.zeros(shape=[num_points, ...])
Zeros(n) == [i \in 1 .. n |-> 0]

\* variant: a weight equal to the threshold counts as covered
CoveredCountInclusive(possibility) ==
    Cardinality({i \in 1 .. Len(possibility) : possibility[i] >= end_threshold})

\* this_possiblility[this_possiblility > end_threshold].shape[0]
CoveredCount(possibility) ==
    Cardinality({i \in 1 .. Len(possibility) : possibility[i] > end_threshold})

\* variant: completion does not look at the split
IsCompleteAnySplit(sp, possibility) ==
    CoveredCount(possibility) = Len(possibility)

\* lines 417-419
IsComplete(sp, possibility) ==
    sp \in {"test"} /\ CoveredCount(possibility) = Len(possibility)

\* model.update_probs(inputs, results, probs, labels): the points of the
\* window get the score of the batch (1) and the predicted class; the other
\* points keep what they had. A running buffer is abstracted per point to
\* one score (0 = nothing accumulated yet) and one label.
UpdateProbsOk(points, buffer) == \A q \in points : IndexOk(buffer, q)

UpdateProbs(points, buffer, value) ==
    [i \in 1 .. Len(buffer) |-> IF (i - 1) \in points THEN value ELSE buffer[i]]

\* array[proj_inds]
TakeOk(buffer, inds) == \A k \in 1 .. Len(inds) : IndexOk(buffer, inds[k])

Take(buffer, inds) == [k \in 1 .. Len(inds) |-> buffer[inds[k] + 1]]

\* variant: the projection the preprocessing supplies is ignored
ProjIndsIdentity(proj, buffer) == Range(Len(buffer))

\* lines 421-427
ProjInds(proj, buffer) == IF proj.none THEN Range(Len(buffer)) ELSE proj.inds

UpdateTests ==
    /\ tpc = "update"
    /\ LET changed == curr_cloud_id # cloud_id
       IN
       /\ curr_cloud_id' = cloud_id                                   \* line 393
       /\ IF ~IndexOk(possibilities, cloud_id)                         \* lines 394, 406
          THEN /\ tpc' = "IndexError"
               /\ UNCHANGED <<test_probs, test_labels, ori_test_probs, ori_test_labels,
                              complete_infer, pbar_update, completions, handed>>
          ELSE
          LET this_possibility == possibilities[cloud_id + 1]
              num_points == Len(this_possibility)
              probs1 == IF changed THEN Append(test_probs, Zeros(num_points))
                        ELSE test_probs                                \* lines 399-401
              labels1 == IF changed THEN Append(test_labels, Zeros(num_points))
                         ELSE test_labels                              \* lines 402-403
              complete1 == IF changed THEN FALSE ELSE complete_infer   \* line 404
              count1 == IF changed THEN 0 ELSE completions
          IN
          /\ pbar_update' = CoveredCount(this_possibility)            \* lines 407-411
          /\ IF \/ ~IndexOk(probs1, cloud_id)                          \* lines 412-415
                \/ ~UpdateProbsOk(window, probs1[cloud_id + 1])
             THEN /\ tpc' = "IndexError"
                  /\ test_probs' = probs1
                  /\ test_labels' = labels1
                  /\ complete_infer' = complete1
                  /\ completions' = count1
                  /\ UNCHANGED <<ori_test_probs, ori_test_labels, handed>>
             ELSE
             LET probs2 == [probs1 EXCEPT ![cloud_id + 1] = UpdateProbs(window, @, 1)]
                 labels2 == [labels1 EXCEPT ![cloud_id + 1] = UpdateProbs(window, @, results)]
                 proj == ProjInds(proj_inds[cloud_id + 1], probs2[cloud_id + 1])
             IN
             /\ test_probs' = probs2
             /\ test_labels' = labels2
             /\ handed' = [changed |-> changed, probs |-> probs1[cloud_id + 1],
                           labels |-> labels1[cloud_id + 1]]
             /\ IF ~IsComplete(split, this_possibility)
                THEN /\ tpc' = "consume"
                     /\ complete_infer' = complete1
                     /\ completions' = count1
                     /\ UNCHANGED <<ori_test_probs, ori_test_labels>>
                ELSE IF ~TakeOk(probs2[cloud_id + 1], proj)
                THEN /\ tpc' = "IndexError"
                     /\ complete_infer' = complete1
                     /\ completions' = count1
                     /\ UNCHANGED <<ori_test_probs, ori_test_labels>>
                ELSE /\ tpc' = "consume"
                     /\ ori_test_probs' =
                            Append(ori_test_probs, Take(probs2[cloud_id + 1], proj))
                     /\ ori_test_labels' =
                            Append(ori_test_labels, Take(labels2[cloud_id + 1], proj))
                     /\ complete_infer' = TRUE                         \* line 432
                     /\ completions' = count1 + 1
    /\ UNCHANGED <<split, possibilities, cloud_id, proj_inds, window, results, steps, saved>>
    /\ UNCHANGED <<samplerVars, trainVars, runVars, inferVars>>

\* no update_probs call is in progress
NothingHanded == [changed |-> FALSE, probs |-> << >>, labels |-> << >>]

\* ------------------------------------------------------------- run_test_1
\* list.pop(): the list without its last element
Pop(list) == SubSeq(list, 1, Len(list) - 1)

\* the classes the model predicts (model.cfg.num_classes = 2)
Classes == {1, 2}

\* line 352: test_loader yields the next batch. The sampler has picked its
\* cloud and the window of points the batch covers, and has raised the
\* weight of those points (weights never decrease).
FetchBatch ==
    /\ tpc = "fetch"
    /\ steps < MaxSteps
    /\ \E c \in 0 .. (Len(possibilities) - 1) :
       \E points \in SUBSET (0 .. (Len(possibilities[c + 1]) - 1)) :
       \E w \in Weights \ {0} :
       \E class \in Classes :
          /\ cloud_id' = c
          /\ window' = points
          /\ results' = class
          /\ possibilities' =
                [possibilities EXCEPT ![c + 1] =
                    [i \in 1 .. Len(@) |-> IF (i - 1) \in points THEN Max(@[i], w) ELSE @[i]]]
    /\ steps' = steps + 1
    /\ tpc' = "update"
    /\ UNCHANGED <<split, proj_inds, curr_cloud_id, test_probs, test_labels,
                   ori_test_probs, ori_test_labels, complete_infer, pbar_update,
                   saved, completions, handed>>
    /\ UNCHANGED <<samplerVars, trainVars, runVars, inferVars>>

\* lines 358-377: a completed result is popped and handed to
\* save_test_result; the batch is dropped at the end of the loop body
ConsumeResult ==
    /\ tpc = "consume"
    /\ IF complete_infer
       THEN /\ saved' = Append(saved, [cloud |-> cloud_id,
                                       predict_labels |-> ori_test_labels[Len(ori_test_labels)],
                                       predict_scores |-> ori_test_probs[Len(ori_test_probs)]])
            /\ ori_test_labels' = Pop(ori_test_labels)
            /\ ori_test_probs' = Pop(ori_test_probs)
       ELSE UNCHANGED <<saved, ori_test_labels, ori_test_probs>>
    /\ window' = {}
    /\ results' = 0
    /\ handed' = NothingHanded
    /\ tpc' = "fetch"
    /\ UNCHANGED <<split, possibilities, cloud_id, proj_inds,
                   curr_cloud_id, test_probs, test_labels, complete_infer, pbar_update,
                   steps, completions>>
    /\ UNCHANGED <<samplerVars, trainVars, runVars, inferVars>>

\* line 352: test_loader is exhausted
LoaderExhausted ==
    /\ tpc = "fetch"
    /\ tpc' = "done"
    /\ UNCHANGED <<split, possibilities, cloud_id, proj_inds, window, results,
                   curr_cloud_id, test_probs, test_labels, ori_test_probs, ori_test_labels,
                   complete_infer, pbar_update, steps, saved, completions, handed>>
    /\ UNCHANGED <<samplerVars, trainVars, runVars, inferVars>>

\* ------------------------------------------------- run_train: the epoch loop
TrainRanks == 0 .. (world_size - 1)

\* the heads (dataset_idx of a batch), range(num_heads)
TrainHeads == 0 .. (MaxHeads - 1)

Positions == {"epoch_start", "train", "train_body", "batch_barrier", "sched",
              "valid", "valid_body", "gather", "merge", "epoch_barrier", "log",
              "done", "hung", "RuntimeError"}

\* [[] for i in range(num_heads)]
EmptyLists == [h \in TrainHeads |-> << >>]

\* a metric after reset()
ResetMetrics == [h \in TrainHeads |-> 0]

NoInputs == [head |-> -1, empty |-> FALSE]

\* loss.cpu().item() of the k-th batch a replica draws in an epoch: the value
\* is the model's; it is kept distinct per replica and batch so that the
\* place of every loss in a merged list can be told
LossOf(r, k) == [rank |-> r, batch |-> k]

\* variant: the epoch is set on the validation sampler as well
SetEpochsBoth(samplers, e) == [train |-> e, valid |-> e]

\* line 565: train_sampler.set_epoch(epoch); valid_sampler is left alone
SetEpochs(samplers, e) == [samplers EXCEPT !.train = e]

\* lines 562-571: the head of the epoch loop
StartEpoch(r) ==
    /\ rpc[r] = "epoch_start"
    /\ train_epoch[r] <= MaxEpoch
    /\ sampler_epoch' = IF distributed                                \* lines 564-565
                        THEN [sampler_epoch EXCEPT ![r] = SetEpochs(@, train_epoch[r])]
                        ELSE sampler_epoch
    /\ metric_train' = [metric_train EXCEPT ![r] = ResetMetrics]     \* lines 568-570
    /\ metric_val' = [metric_val EXCEPT ![r] = ResetMetrics]
    /\ losses' = [losses EXCEPT ![r] = EmptyLists]                    \* line 571
    /\ train_left' = [train_left EXCEPT ![r] = TrainBatches]          \* line 573
    /\ rpc' = [rpc EXCEPT ![r] = "train"]
    /\ UNCHANGED <<distributed, world_size, grad_clip, save_ckpt_freq, train_epoch,
                   valid_left, inputs, valid_losses, optim, scheduler, gather_arr,
                   logs, ckpts, handlers>>
    /\ UNCHANGED <<samplerVars, testVars, runVars, inferVars>>

\* line 562: range(start_ep, cfg.max_epoch + 1) is exhausted
EndTraining(r) ==
    /\ rpc[r] = "epoch_start"
    /\ train_epoch[r] > MaxEpoch
    /\ rpc' = [rpc EXCEPT ![r] = "done"]
    /\ UNCHANGED <<distributed, world_size, grad_clip, save_ckpt_freq, train_epoch,
                   train_left, valid_left, inputs, losses, valid_losses, metric_train,
                   metric_val, optim, scheduler, sampler_epoch, gather_arr, logs, ckpts, handlers>>
    /\ UNCHANGED <<samplerVars, testVars, runVars, inferVars>>

\* where the training loop goes after a batch: its next batch, or line 616
AfterTrainBatch(left) == IF left > 0 THEN "train" ELSE "sched"

\* lines 573-582: train_loader yields a batch; zero_grad, forward and get_loss
FetchTrain(r) ==
    /\ rpc[r] = "train"
    /\ train_left[r] > 0
    /\ \E h \in TrainHeads, e \in BOOLEAN :
          inputs' = [inputs EXCEPT ![r] = [head |-> h, empty |-> e]]
    /\ train_left' = [train_left EXCEPT ![r] = @ - 1]
    /\ rpc' = [rpc EXCEPT ![r] = "train_body"]
    /\ UNCHANGED <<distributed, world_size, grad_clip, save_ckpt_freq, train_epoch,
                   valid_left, losses, valid_losses, metric_train, metric_val, optim,
                   scheduler, sampler_epoch, gather_arr, logs, ckpts, handlers>>
    /\ UNCHANGED <<samplerVars, testVars, runVars, inferVars>>

\* variant: every batch is booked on the first head
HeadOfFirst(batch) == 0

\* line 577: dataset_idx = inputs['data'].dataset_idx
HeadOf(batch) == batch.head

\* variant: an empty prediction tensor is treated like any other batch
SkipsBatchNever(batch) == FALSE

\* lines 584-585: predict_scores.size()[-1] == 0
SkipsBatch(batch) == batch.empty

\* lines 584-614: the rest of the body of the training loop
TrainBody(r) ==
    /\ rpc[r] = "train_body"
    /\ LET h == HeadOf(inputs[r])
           k == TrainBatches - train_left[r]
       IN
       IF SkipsBatch(inputs[r])
       THEN /\ rpc' = [rpc EXCEPT ![r] = AfterTrainBatch(train_left[r])]  \* continue
            /\ UNCHANGED <<optim, metric_train, losses>>
       ELSE /\ optim' = [optim EXCEPT                                 \* lines 587-596
                            ![r].backward = @ + 1,
                            ![r].clip = IF grad_clip THEN @ + 1 ELSE @,
                            ![r].step = @ + 1]
            /\ metric_train' = [metric_train EXCEPT ![r][h] = @ + 1]  \* line 598
            /\ losses' = [losses EXCEPT ![r][h] = Append(@, LossOf(r, k))]  \* line 600
            /\ rpc' = [rpc EXCEPT ![r] = IF distributed THEN "batch_barrier"  \* 613-614
                                         ELSE AfterTrainBatch(train_left[r])]
    /\ inputs' = [inputs EXCEPT ![r] = NoInputs]
    /\ UNCHANGED <<distributed, world_size, grad_clip, save_ckpt_freq, train_epoch,
                   train_left, valid_left, valid_losses, metric_val, scheduler,
                   sampler_epoch, gather_arr, logs, ckpts, handlers>>
    /\ UNCHANGED <<samplerVars, testVars, runVars, inferVars>>

\* variant: the validation pass starts without a scheduler step
SchedulerAfterIdle(n) == n

\* lines 616-617: scheduler.step()
SchedulerAfter(n) == n + 1

\* lines 616-621: the scheduler step, model.eval(), the validation lists
SchedulerStep(r) ==
    /\ rpc[r] = "sched"
    /\ scheduler' = [scheduler EXCEPT ![r] = SchedulerAfter(@)]
    /\ valid_losses' = [valid_losses EXCEPT ![r] = EmptyLists]       \* line 621
    /\ valid_left' = [valid_left EXCEPT ![r] = ValidBatches]
    /\ rpc' = [rpc EXCEPT ![r] = "valid"]
    /\ UNCHANGED <<distributed, world_size, grad_clip, save_ckpt_freq, train_epoch,
                   train_left, inputs, losses, metric_train, metric_val, optim,
                   sampler_epoch, gather_arr, logs, ckpts, handlers>>
    /\ UNCHANGED <<samplerVars, testVars, runVars, inferVars>>

\* where a replica goes after the validation pass: lines 646 and 662
AfterValidation == IF distributed THEN "gather" ELSE "log"

\* lines 624-632: valid_loader yields a batch; forward and get_loss
FetchValid(r) ==
    /\ rpc[r] = "valid"
    /\ valid_left[r] > 0
    /\ \E h \in TrainHeads, e \in BOOLEAN :
          inputs' = [inputs EXCEPT ![r] = [head |-> h, empty |-> e]]
    /\ valid_left' = [valid_left EXCEPT ![r] = @ - 1]
    /\ rpc' = [rpc EXCEPT ![r] = "valid_body"]
    /\ UNCHANGED <<distributed, world_size, grad_clip, save_ckpt_freq, train_epoch,
                   train_left, losses, valid_losses, metric_train, metric_val, optim,
                   scheduler, sampler_epoch, gather_arr, logs, ckpts, handlers>>
    /\ UNCHANGED <<samplerVars, testVars, runVars, inferVars>>

\* lines 634-640: the rest of the body of the validation loop
ValidBody(r) ==
    /\ rpc[r] = "valid_body"
    /\ LET h == HeadOf(inputs[r])
           k == ValidBatches - valid_left[r]
       IN
       IF SkipsBatch(inputs[r])
       THEN UNCHANGED <<metric_val, valid_losses>>                    \* continue
       ELSE /\ metric_val' = [metric_val EXCEPT ![r][h] = @ + 1]      \* line 637
            /\ valid_losses' =
                  [valid_losses EXCEPT ![r][h] = Append(@, LossOf(r, k))]  \* line 640
    /\ rpc' = [rpc EXCEPT ![r] = IF valid_left[r] > 0 THEN "valid" ELSE AfterValidation]
    /\ inputs' = [inputs EXCEPT ![r] = NoInputs]
    /\ UNCHANGED <<distributed, world_size, grad_clip, save_ckpt_freq, train_epoch,
                   train_left, valid_left, losses, metric_train, optim, scheduler,
                   sampler_epoch, gather_arr, logs, ckpts, handlers>>
    /\ UNCHANGED <<samplerVars, testVars, runVars, inferVars>>

\* ------------------------------------------- run_train: torch.distributed calls
\* variant: every replica takes the rank-0 branches
WritesAny(r) == TRUE

\* lines 444, 662: rank == 0
Writes(r) == r = 0

\* the collective a replica is blocked in
CollectiveOf(r) ==
    IF rpc[r] \in {"batch_barrier", "epoch_barrier"} THEN "barrier"
    ELSE IF rpc[r] = "gather" THEN "gather_object"
    ELSE "none"

AllBlocked == distributed /\ \A r \in TrainRanks : CollectiveOf(r) # "none"

\* lines 613-614 and 660: dist.barrier() returns on every replica once every
\* replica has entered it
Barrier ==
    /\ AllBlocked
    /\ \A r \in TrainRanks : CollectiveOf(r) = "barrier"
    /\ rpc' = [r \in TrainRanks |->
                 IF rpc[r] = "batch_barrier" THEN AfterTrainBatch(train_left[r])
                 ELSE IF Writes(r) THEN "log"                          \* line 662
                 ELSE "epoch_start"]
    /\ train_epoch' = [r \in TrainRanks |->
                 IF rpc[r] = "epoch_barrier" /\ ~Writes(r) THEN train_epoch[r] + 1
                 ELSE train_epoch[r]]
    /\ UNCHANGED <<distributed, world_size, grad_clip, save_ckpt_freq,
                   train_left, valid_left, inputs, losses, valid_losses, metric_train,
                   metric_val, optim, scheduler, sampler_epoch, gather_arr, logs, ckpts, handlers>>
    /\ UNCHANGED <<samplerVars, testVars, runVars, inferVars>>

\* lines 647-651: dist.gather_object(...) fills gather_arr at rank 0
GatherObject ==
    /\ AllBlocked
    /\ \A r \in TrainRanks : CollectiveOf(r) = "gather_object"
    /\ gather_arr' = [k \in 1 .. world_size |->
                         [metric_train |-> metric_train[k - 1],
                          metric_val |-> metric_val[k - 1],
                          losses |-> losses[k - 1],
                          valid_losses |-> valid_losses[k - 1]]]
    /\ rpc' = [r \in TrainRanks |-> IF r = 0 THEN "merge" ELSE "epoch_barrier"]
    /\ UNCHANGED <<distributed, world_size, grad_clip, save_ckpt_freq, train_epoch,
                   train_left, valid_left, inputs, losses, valid_losses, metric_train,
                   metric_val, optim, scheduler, sampler_epoch, logs, ckpts, handlers>>
    /\ UNCHANGED <<samplerVars, testVars, runVars, inferVars>>

\* the replicas are blocked in collectives that do not match (one in
\* dist.barrier(), another in dist.gather_object()): torch.distributed does
\* not define the outcome; the job hangs until the backend times out, or the
\* backend raises
CollectiveMismatch ==
    /\ AllBlocked
    /\ \E r, q \in TrainRanks : CollectiveOf(r) # CollectiveOf(q)
    /\ \E outcome \in {"hung", "RuntimeError"} :
          rpc' = [r \in TrainRanks |-> outcome]
    /\ UNCHANGED <<distributed, world_size, grad_clip, save_ckpt_freq, train_epoch,
                   train_left, valid_left, inputs, losses, valid_losses, metric_train,
                   metric_val, optim, scheduler, sampler_epoch, gather_arr, logs, ckpts, handlers>>
    /\ UNCHANGED <<samplerVars, testVars, runVars, inferVars>>

RECURSIVE SumSeq(_)
SumSeq(s) == IF s = << >> THEN 0 ELSE Head(s) + SumSeq(Tail(s))

\* variant: the merge runs over every gathered entry, rank 0's own included
GatheredAll(arr) == arr

\* line 653: gather_arr[1:]
GatheredOthers(arr) == Tail(arr)

\* lines 652-659: rank 0 adds what the other ranks sent to its own
Merge ==
    /\ rpc[0] = "merge"
    /\ LET others == GatheredOthers(gather_arr)
           n == Len(others)
       IN
       /\ metric_train' = [metric_train EXCEPT ![0] = [h \in TrainHeads |->
              @[h] + SumSeq([k \in 1 .. n |-> others[k].metric_train[h]])]]
       /\ metric_val' = [metric_val EXCEPT ![0] = [h \in TrainHeads |->
              @[h] + SumSeq([k \in 1 .. n |-> others[k].metric_val[h]])]]
       /\ losses' = [losses EXCEPT ![0] = [h \in TrainHeads |->
              @[h] \o Flatten([k \in 1 .. n |-> others[k].losses[h]])]]
       /\ valid_losses' = [valid_losses EXCEPT ![0] = [h \in TrainHeads |->
              @[h] \o Flatten([k \in 1 .. n |-> others[k].valid_losses[h]])]]
    /\ gather_arr' = << >>
    /\ rpc' = [rpc EXCEPT ![0] = "epoch_barrier"]                     \* line 660
    /\ UNCHANGED <<distributed, world_size, grad_clip, save_ckpt_freq, train_epoch,
                   train_left, valid_left, inputs, optim, scheduler, sampler_epoch,
                   logs, ckpts, handlers>>
    /\ UNCHANGED <<samplerVars, testVars, runVars, inferVars>>

\* lines 820-822: save_logs returns at once for a head without metrics
Logged(r, e) ==
    {<<e, h>> : h \in {i \in TrainHeads : metric_train[r][i] > 0 /\ metric_val[r][i] > 0}}

\* variant: only the period decides, the last epoch is not special
SavesCkptPeriodOnly(e, freq, last) == e % freq = 0

\* line 665
SavesCkpt(e, freq, last) == e % freq = 0 \/ e = last

\* lines 662-666: the replica that passed the rank test writes the logs of
\* the epoch and maybe a checkpoint
LogAndCheckpoint(r) ==
    /\ rpc[r] = "log"
    /\ logs' = logs \cup Logged(r, train_epoch[r])
    /\ ckpts' = IF SavesCkpt(train_epoch[r], save_ckpt_freq, MaxEpoch)
                THEN Append(ckpts, train_epoch[r])
                ELSE ckpts
    /\ train_epoch' = [train_epoch EXCEPT ![r] = @ + 1]
    /\ rpc' = [rpc EXCEPT ![r] = "epoch_start"]
    /\ UNCHANGED <<distributed, world_size, grad_clip, save_ckpt_freq,
                   train_left, valid_left, inputs, losses, valid_losses, metric_train,
                   metric_val, optim, scheduler, sampler_epoch, gather_arr, handlers>>
    /\ UNCHANGED <<samplerVars, testVars, runVars, inferVars>>

\* no training runs
TrainIdle ==
    /\ distributed = FALSE /\ world_size = 0 /\ grad_clip = FALSE
    /\ save_ckpt_freq = 1
    /\ rpc = << >> /\ train_epoch = << >> /\ train_left = << >>
    /\ valid_left = << >> /\ inputs = << >> /\ losses = << >>
    /\ valid_losses = << >> /\ metric_train = << >> /\ metric_val = << >>
    /\ optim = << >> /\ scheduler = << >> /\ sampler_epoch = << >>
    /\ gather_arr = << >> /\ logs = {} /\ ckpts = << >> /\ handlers = {}

\* --------------------------------------------- run_train on one process
\* ckpt_path is None / latest_torch_ckpt found nothing
NoPath == -1

\* no checkpoint was read
NoCkpt == [name |-> NoPath, has_epoch |-> FALSE, epoch |-> 0, has_optim |-> FALSE,
           model |-> 0, optimizer |-> 0, scheduler |-> 0]

\* lines 469-473: train_sampler = None, valid_sampler = None, whatever the
\* dataset splits carry
SamplerAtSetup(carried) == FALSE

\* lines 434-531: the setup of run_train up to the call of load_ckpt
RunSetup ==
    /\ run_pc = "setup"
    /\ LET train_sampler == SamplerAtSetup(dataset_sampler)
           valid_sampler == SamplerAtSetup(dataset_sampler)
       IN IF run_distributed /\ (train_sampler \/ valid_sampler)     \* lines 491-494
          THEN /\ run_pc' = "NotImplementedError"
               /\ UNCHANGED samplers_built
          ELSE /\ samplers_built' = TRUE                              \* lines 495-529
               /\ run_pc' = "load_ckpt"                               \* line 534
    /\ UNCHANGED <<run_distributed, dataset_sampler, max_epoch, ckpt_freq, disk,
                   ckpt_path, is_resume, start_ep, run_epoch, model_state,
                   optimizer_state, scheduler_state, loaded, epochs_run, saved_now,
                   runs>>
    /\ UNCHANGED <<samplerVars, testVars, trainVars, inferVars>>

\* exists(ckpt_path)
Exists(files, path) == \E f \in files : f.name = path

\* latest_torch_ckpt(train_ckpt_dir): the file with the highest number in
\* its name, None for an empty directory
LatestCkpt(files) ==
    IF files = {} THEN NoPath
    ELSE CHOOSE n \in {f.name : f \in files} : \A f \in files : f.name <= n

\* torch.load(ckpt_path); line 890 has raised if there is no such file
ReadFile(files, path) ==
    IF Exists(files, path) THEN CHOOSE f \in files : f.name = path ELSE NoCkpt

\* variant: the latest checkpoint is taken whether or not resume is asked
ResumesLatestAlways(latest, resume) == latest # NoPath

\* line 884: ckpt_path is not None and is_resume
ResumesLatest(latest, resume) == latest # NoPath /\ resume

\* variant: a missing file goes unnoticed
PathMissingIgnored(files, path) == FALSE

\* line 890: not exists(ckpt_path)
PathMissing(files, path) == ~Exists(files, path)

\* variant: the run resumes at the saved epoch itself
ResumeEpochSame(ckpt) == IF ckpt.has_epoch THEN ckpt.epoch ELSE 0

\* line 904
ResumeEpoch(ckpt) == IF ckpt.has_epoch THEN ckpt.epoch + 1 ELSE 0

\* lines 872-906: load_ckpt(model.cfg.ckpt_path, is_resume), and line 562
\* taking its result as the first epoch
LoadCkpt ==
    /\ run_pc = "load_ckpt"
    /\ LET latest == LatestCkpt(disk)
           path == IF ckpt_path = NoPath THEN latest ELSE ckpt_path   \* line 883
       IN
       IF ckpt_path = NoPath /\ ~ResumesLatest(latest, is_resume)     \* lines 884-887
       THEN /\ start_ep' = 0
            /\ run_epoch' = 0
            /\ run_pc' = "loop"
            /\ UNCHANGED <<model_state, optimizer_state, scheduler_state, loaded>>
       ELSE IF PathMissing(disk, path)                                \* lines 890-891
       THEN /\ run_pc' = "FileNotFoundError"
            /\ UNCHANGED <<start_ep, run_epoch, model_state, optimizer_state,
                           scheduler_state, loaded>>
       ELSE LET ckpt == ReadFile(disk, path)                          \* line 894
            IN /\ model_state' = ckpt.model                           \* line 896
               /\ optimizer_state' = IF ckpt.has_optim THEN ckpt.optimizer
                                     ELSE optimizer_state             \* lines 897-899
               /\ scheduler_state' = IF ckpt.has_optim THEN ckpt.scheduler
                                     ELSE scheduler_state             \* lines 900-902
               /\ start_ep' = ResumeEpoch(ckpt)                       \* lines 904-906
               /\ run_epoch' = ResumeEpoch(ckpt)
               /\ loaded' = ckpt
               /\ run_pc' = "loop"
    /\ UNCHANGED <<run_distributed, dataset_sampler, max_epoch, ckpt_freq, disk,
                   ckpt_path, is_resume, samplers_built, epochs_run, saved_now, runs>>
    /\ UNCHANGED <<samplerVars, testVars, trainVars, inferVars>>

\* lines 908-918: the file save_ckpt(epoch) writes
SavedCkpt(e, model, optimizer, sched) ==
    [name |-> e, has_epoch |-> TRUE, epoch |-> e, has_optim |-> TRUE,
     model |-> model, optimizer |-> optimizer, scheduler |-> sched]

\* torch.save(..., path): a file of that name is replaced
WriteFile(files, file) == {f \in files : f.name # file.name} \cup {file}

\* lines 562-666: one epoch of the loop, every collective of it paired up:
\* the training pass, the scheduler step, the validation pass and, at the
\* end, the checkpoint when one is due
RunEpoch ==
    /\ run_pc = "loop"
    /\ run_epoch <= max_epoch
    /\ model_state' = model_state + 1
    /\ optimizer_state' = optimizer_state + 1
    /\ scheduler_state' = scheduler_state + 1
    /\ epochs_run' = Append(epochs_run, run_epoch)
    /\ IF SavesCkpt(run_epoch, ckpt_freq, max_epoch)                  \* lines 665-666
       THEN /\ disk' = WriteFile(disk, SavedCkpt(run_epoch, model_state + 1,
                                                 optimizer_state + 1,
                                                 scheduler_state + 1))
            /\ saved_now' = Append(saved_now, run_epoch)
       ELSE UNCHANGED <<disk, saved_now>>
    /\ run_epoch' = run_epoch + 1
    /\ UNCHANGED <<run_distributed, dataset_sampler, max_epoch, ckpt_freq,
                   ckpt_path, is_resume, run_pc, samplers_built, start_ep, loaded,
                   runs>>
    /\ UNCHANGED <<samplerVars, testVars, trainVars, inferVars>>

\* lines 583-585 and 613-614: in a distributed run a replica that skips a
\* batch skips its dist.barrier() too, and the epoch does not end
EpochStalls ==
    /\ run_pc = "loop"
    /\ run_epoch <= max_epoch
    /\ run_distributed
    /\ run_pc' = "hung"
    /\ UNCHANGED <<run_distributed, dataset_sampler, max_epoch, ckpt_freq, disk,
                   ckpt_path, is_resume, samplers_built, start_ep, run_epoch,
                   model_state, optimizer_state, scheduler_state, loaded, epochs_run,
                   saved_now, runs>>
    /\ UNCHANGED <<samplerVars, testVars, trainVars, inferVars>>

\* line 562: range(start_ep, cfg.max_epoch + 1) is exhausted
EndRun ==
    /\ run_pc = "loop"
    /\ run_epoch > max_epoch
    /\ run_pc' = "done"
    /\ UNCHANGED <<run_distributed, dataset_sampler, max_epoch, ckpt_freq, disk,
                   ckpt_path, is_resume, samplers_built, start_ep, run_epoch,
                   model_state, optimizer_state, scheduler_state, loaded, epochs_run,
                   saved_now, runs>>
    /\ UNCHANGED <<samplerVars, testVars, trainVars, inferVars>>

\* the names a checkpoint path may carry
PathNames == 0 .. max_epoch

\* a process that has just entered run_train: a new model, optimizer and
\* scheduler, nothing loaded
FreshRun ==
    /\ run_pc = "setup"
    /\ samplers_built = FALSE
    /\ start_ep = 0 /\ run_epoch = 0
    /\ model_state = 0 /\ optimizer_state = 0 /\ scheduler_state = 0
    /\ loaded = NoCkpt
    /\ epochs_run = << >> /\ saved_now = << >>

\* run_train is called again, in a new process, on the same directory
NewRun ==
    /\ run_pc \in {"done", "hung", "NotImplementedError", "FileNotFoundError"}
    /\ runs < MaxRuns
    /\ runs' = runs + 1
    /\ ckpt_path' \in {NoPath} \cup PathNames
    /\ is_resume' \in BOOLEAN
    /\ run_pc' = "setup"
    /\ samplers_built' = FALSE
    /\ start_ep' = 0 /\ run_epoch' = 0
    /\ model_state' = 0 /\ optimizer_state' = 0 /\ scheduler_state' = 0
    /\ loaded' = NoCkpt
    /\ epochs_run' = << >> /\ saved_now' = << >>
    /\ UNCHANGED <<run_distributed, dataset_sampler, max_epoch, ckpt_freq, disk>>
    /\ UNCHANGED <<samplerVars, testVars, trainVars, inferVars>>

\* run_train is not called
RunIdle ==
    /\ run_distributed = FALSE /\ dataset_sampler = FALSE
    /\ max_epoch = 0 /\ ckpt_freq = 1 /\ disk = {}
    /\ ckpt_path = NoPath /\ is_resume = TRUE
    /\ run_pc = "done" /\ samplers_built = FALSE
    /\ start_ep = 0 /\ run_epoch = 0
    /\ model_state = 0 /\ optimizer_state = 0 /\ scheduler_state = 0
    /\ loaded = NoCkpt
    /\ epochs_run = << >> /\ saved_now = << >>
    /\ runs = 0

\* ------------------------------------------------------------ run_inference
\* run_inference has returned nothing
NoReturn == [kind |-> "none", output |-> 0, predict_labels |-> << >>,
             predict_scores |-> << >>]

\* lines 196-224: the loader over the one cloud is built and the buffers of
\* the aggregator are reset
InferStart ==
    /\ infer_pc = "start"
    /\ curr_cloud_id' = -1                                            \* line 220
    /\ test_probs' = << >>
    /\ test_labels' = << >>
    /\ ori_test_probs' = << >>
    /\ ori_test_labels' = << >>
    /\ infer_pc' = "loop"
    /\ UNCHANGED <<split, possibilities, cloud_id, proj_inds, window, results,
                   complete_infer, pbar_update, tpc, steps, saved, completions,
                   handed>>
    /\ UNCHANGED <<infer_batches, infer_left, updates, returned>>
    /\ UNCHANGED <<samplerVars, trainVars, runVars>>

\* lines 227-233: infer_loader yields a batch, the model is run on it and its
\* output is returned; the statement after the return (line 234,
\* update_tests) is never executed
InferBatch ==
    /\ infer_pc = "loop"
    /\ infer_left > 0
    /\ \E points \in SUBSET (0 .. (Len(possibilities[1]) - 1)) :
       \E class \in Classes :
          /\ cloud_id' = 0
          /\ window' = points
          /\ results' = class                                         \* line 231
          /\ returned' = [NoReturn EXCEPT !.kind = "results", !.output = class]
    /\ infer_left' = infer_left - 1
    /\ infer_pc' = "returned"                                         \* line 233
    /\ UNCHANGED <<split, possibilities, proj_inds, curr_cloud_id, test_probs,
                   test_labels, ori_test_probs, ori_test_labels, complete_infer,
                   pbar_update, tpc, steps, saved, completions, handed>>
    /\ UNCHANGED <<infer_batches, updates>>
    /\ UNCHANGED <<samplerVars, trainVars, runVars>>

\* lines 236-252: the loop ends without a return, and the last finalized
\* cloud is popped; list.pop() of an empty list raises IndexError
InferAfterLoop ==
    /\ infer_pc = "loop"
    /\ infer_left = 0
    /\ IF ori_test_labels = << >> \/ ori_test_probs = << >>
       THEN /\ infer_pc' = "IndexError"
            /\ UNCHANGED <<ori_test_labels, ori_test_probs, returned>>
       ELSE /\ returned' = [NoReturn EXCEPT
                              !.kind = "inference_result",
                              !.predict_labels = ori_test_labels[Len(ori_test_labels)],
                              !.predict_scores = ori_test_probs[Len(ori_test_probs)]]
            /\ ori_test_labels' = Pop(ori_test_labels)
            /\ ori_test_probs' = Pop(ori_test_probs)
            /\ infer_pc' = "returned"
    /\ UNCHANGED <<split, possibilities, cloud_id, proj_inds, window, results,
                   curr_cloud_id, test_probs, test_labels, complete_infer,
                   pbar_update, tpc, steps, saved, completions, handed>>
    /\ UNCHANGED <<infer_batches, infer_left, updates>>
    /\ UNCHANGED <<samplerVars, trainVars, runVars>>

\* run_inference is not called
InferIdle ==
    /\ infer_pc = "returned"
    /\ infer_batches = 0
    /\ infer_left = 0
    /\ updates = 0
    /\ returned = NoReturn

\* ----------------------------------------------------- sampler specification
\* line 36: run_train builds its samplers without a seed argument (lines 495-502)
DefaultSeed == 0

SamplerStart ==
    /\ dataset_len \in 0 .. MaxLen
    /\ num_heads \in 1 .. MaxHeads
    /\ batch_size \in 1 .. MaxBatch
    /\ num_replicas \in 1 .. MaxReplicas
    /\ shuffle \in BOOLEAN
    /\ seed = DefaultSeed
    /\ pc = [r \in Ranks |-> "new"]
    /\ indices_batched = [r \in Ranks |-> << >>]
    /\ num_samples = [r \in Ranks |-> 0]
    /\ total_size = [r \in Ranks |-> 0]
    /\ epoch = [r \in Ranks |-> 0]
    /\ iter_status = [r \in Ranks |-> "none"]
    /\ perm = [r \in Ranks |-> << >>]
    /\ padded = [r \in Ranks |-> << >>]
    /\ shard = [r \in Ranks |-> << >>]
    /\ yielded = [r \in Ranks |-> << >>]

\* no test loop runs
TestsIdle ==
    /\ split = "test"
    /\ possibilities = << >>
    /\ cloud_id = -1
    /\ proj_inds = << >>
    /\ window = {}
    /\ results = 0
    /\ curr_cloud_id = -1
    /\ test_probs = << >>
    /\ test_labels = << >>
    /\ ori_test_probs = << >>
    /\ ori_test_labels = << >>
    /\ complete_infer = FALSE
    /\ pbar_update = 0
    /\ tpc = "done"
    /\ steps = 0
    /\ saved = << >>
    /\ completions = 0
    /\ handed = NothingHanded

Init == SamplerStart /\ TestsIdle /\ TrainIdle /\ RunIdle /\ InferIdle

Next ==
    \E r \in Ranks :
        \/ SamplerInit(r)
        \/ Iterate(r)
        \/ \E e \in 0 .. MaxEpoch : SetEpoch(r, e)

Spec == Init /\ [][Next]_vars

\* ------------------------------------------------------ test-loop specification
Splits == {"train", "val", "test"}

\* what preprocess may return for a cloud whose possibility map has n points:
\* no proj_inds, or the indices of n + 1 original points (the sub-sampled
\* points in reverse order, the first of them used twice)
ProjChoices(n) ==
    {[none |-> TRUE, inds |-> << >>],
     [none |-> FALSE,
      inds |-> IF n = 0 THEN << >>
               ELSE [k \in 1 .. (n + 1) |-> IF k <= n THEN n - k ELSE 0]]}

\* no sampler is constructed
SamplerIdle ==
    /\ dataset_len = 0 /\ num_heads = 1 /\ batch_size = 1 /\ num_replicas = 0
    /\ shuffle = FALSE /\ seed = 0
    /\ pc = << >> /\ indices_batched = << >> /\ num_samples = << >>
    /\ total_size = << >> /\ epoch = << >> /\ iter_status = << >>
    /\ perm = << >> /\ padded = << >> /\ shard = << >> /\ yielded = << >>

\* run_test_1, lines 342-346, with the test split's clouds not yet covered
TestsStart ==
    /\ split \in Splits
    /\ \E n \in 1 .. MaxClouds :
          /\ possibilities \in [1 .. n -> {Zeros(k) : k \in 0 .. MaxPoints}]
          /\ proj_inds \in [1 .. n -> UNION {ProjChoices(k) : k \in 0 .. MaxPoints}]
          /\ \A c \in 1 .. n : proj_inds[c] \in ProjChoices(Len(possibilities[c]))
    /\ cloud_id = -1
    /\ window = {}
    /\ results = 0
    /\ curr_cloud_id = -1
    /\ test_probs = << >>
    /\ test_labels = << >>
    /\ ori_test_probs = << >>
    /\ ori_test_labels = << >>
    /\ complete_infer = FALSE
    /\ pbar_update = 0
    /\ tpc = "fetch"
    /\ steps = 0
    /\ saved = << >>
    /\ completions = 0
    /\ handed = NothingHanded

TestsInit == SamplerIdle /\ TestsStart /\ TrainIdle /\ RunIdle /\ InferIdle

TestsNext ==
    \/ FetchBatch
    \/ UpdateTests
    \/ ConsumeResult
    \/ LoaderExhausted

SpecTests == TestsInit /\ [][TestsNext]_vars

\* ------------------------------------------------------ training specification
\* the values cfg.save_ckpt_freq takes
Freqs == {2}

\* run_train at line 562, started from scratch (load_ckpt returned 0)
TrainStart ==
    /\ distributed \in BOOLEAN
    /\ world_size = IF distributed THEN MaxReplicas ELSE 1
    /\ grad_clip \in BOOLEAN
    /\ save_ckpt_freq \in Freqs
    /\ rpc = [r \in TrainRanks |-> "epoch_start"]
    /\ train_epoch = [r \in TrainRanks |-> 0]
    /\ train_left = [r \in TrainRanks |-> 0]
    /\ valid_left = [r \in TrainRanks |-> 0]
    /\ inputs = [r \in TrainRanks |-> NoInputs]
    /\ losses = [r \in TrainRanks |-> EmptyLists]
    /\ valid_losses = [r \in TrainRanks |-> EmptyLists]
    /\ metric_train = [r \in TrainRanks |-> ResetMetrics]
    /\ metric_val = [r \in TrainRanks |-> ResetMetrics]
    /\ optim = [r \in TrainRanks |-> [backward |-> 0, clip |-> 0, step |-> 0]]
    /\ scheduler = [r \in TrainRanks |-> 0]
    /\ sampler_epoch = [r \in TrainRanks |-> [train |-> 0, valid |-> 0]]
    /\ gather_arr = << >>
    /\ logs = {}
    /\ ckpts = << >>
    /\ handlers = {r \in TrainRanks : Writes(r)}                      \* lines 444-451

TrainInit == SamplerIdle /\ TestsIdle /\ TrainStart /\ RunIdle /\ InferIdle

TrainNext ==
    \/ \E r \in TrainRanks :
          \/ StartEpoch(r)
          \/ EndTraining(r)
          \/ FetchTrain(r)
          \/ TrainBody(r)
          \/ SchedulerStep(r)
          \/ FetchValid(r)
          \/ ValidBody(r)
          \/ LogAndCheckpoint(r)
    \/ Barrier
    \/ GatherObject
    \/ CollectiveMismatch
    \/ Merge

SpecTrain == TrainInit /\ [][TrainNext]_vars

\* ------------------------------------------------------- whole-run specification
\* a checkpoint file that was not written by save_ckpt of these runs: its
\* dictionary may lack the epoch and the optimizer and scheduler entries
ForeignFiles ==
    {[name |-> 0, has_epoch |-> he, epoch |-> IF he THEN MaxEpoch ELSE 0,
      has_optim |-> ho, model |-> 1,
      optimizer |-> IF ho THEN 1 ELSE 0, scheduler |-> IF ho THEN 1 ELSE 0] :
        he \in BOOLEAN, ho \in BOOLEAN}

\* the first call of run_train on a checkpoint directory that is empty or
\* holds one file
RunStart ==
    /\ run_distributed \in BOOLEAN
    /\ dataset_sampler \in BOOLEAN
    /\ max_epoch \in 0 .. (MaxEpoch + 1)
    /\ ckpt_freq \in 1 .. (MaxEpoch + 1)
    /\ disk \in {{}} \cup {{f} : f \in ForeignFiles}
    /\ ckpt_path \in {NoPath} \cup PathNames
    /\ is_resume \in BOOLEAN
    /\ FreshRun
    /\ runs = 1

RunInit == SamplerIdle /\ TestsIdle /\ TrainIdle /\ RunStart /\ InferIdle

RunNext ==
    \/ RunSetup
    \/ LoadCkpt
    \/ RunEpoch
    \/ EpochStalls
    \/ EndRun
    \/ NewRun

SpecRun == RunInit /\ [][RunNext]_vars

\* ------------------------------------------------------ inference specification
\* run_inference is called on one cloud; an earlier run_test_1 or
\* run_inference may have left a finalized cloud in the buffers
InferEntry ==
    /\ split = "test"
    /\ \E n \in 0 .. MaxPoints :
          /\ possibilities = <<Zeros(n)>>
          /\ proj_inds \in [1 .. 1 -> ProjChoices(n)]
    /\ cloud_id = -1
    /\ window = {}
    /\ results = 0
    /\ \E left \in {<< >>} \cup {<<[i \in 1 .. MaxPoints |-> c]>> : c \in Classes} :
          /\ curr_cloud_id = IF left = << >> THEN -1 ELSE 0
          /\ test_probs = left
          /\ test_labels = left
          /\ ori_test_probs = left
          /\ ori_test_labels = left
    /\ complete_infer = FALSE
    /\ pbar_update = 0
    /\ tpc = "done"
    /\ steps = 0
    /\ saved = << >>
    /\ completions = 0
    /\ handed = NothingHanded
    /\ infer_pc = "start"
    /\ infer_batches \in 0 .. MaxSteps
    /\ infer_left = infer_batches
    /\ updates = 0
    /\ returned = NoReturn

InferInit == SamplerIdle /\ InferEntry /\ TrainIdle /\ RunIdle

InferNext ==
    \/ InferStart
    \/ InferBatch
    \/ InferAfterLoop

SpecInfer == InferInit /\ [][InferNext]_vars

\* ============================================================ sampler claims
Rows(r) == Len(indices_batched[r])

SameHead(row) == \E h \in 0 .. (num_heads - 1) : \A c \in 1 .. Len(row) : row[c] % num_heads = h

RECURSIVE SumShards(_)
SumShards(n) == IF n = 0 THEN 0 ELSE Len(shard[n - 1]) + SumShards(n - 1)

\* C1 (as stated): on every replica, for every valid (rows, B, R), __iter__
\* raises no assertion and yields exactly num_samples = ceil(rows / R) * B
\* indices, with total_size = num_samples * R.
C1_IterYieldsNumSamples ==
    \A r \in Ranks :
        pc[r] = "ready" =>
            /\ num_samples[r] = Ceil(Rows(r), num_replicas) * batch_size
            /\ total_size[r] = num_samples[r] * num_replicas
            /\ iter_status[r] # "AssertionError"
            /\ iter_status[r] = "ok" => Len(yielded[r]) = num_samples[r]

\* C2: for N % H = 0 the table has B columns, H * floor((N/H)/B) rows and
\* every row holds indices of one head only.
C2_TableShape ==
    \A r \in Ranks :
        pc[r] = "ready" =>
            /\ dataset_len % num_heads = 0
            /\ Rows(r) = num_heads * ((dataset_len \div num_heads) \div batch_size)
            /\ \A j \in 1 .. Rows(r) :
                  /\ Len(indices_batched[r][j]) = batch_size
                  /\ SameHead(indices_batched[r][j])

C2_Witness ==
    \E r \in Ranks :
        /\ pc[r] = "ready"
        /\ num_heads = 2 /\ batch_size = 3 /\ dataset_len = 10
        /\ Rows(r) = 2

\* C3: every consecutive group of B yielded indices is one row of the table,
\* so a batch has length B and holds one head only.
C3_BatchesAreRows ==
    \A r \in Ranks :
        iter_status[r] = "ok" =>
            /\ Len(yielded[r]) % batch_size = 0
            /\ \A k \in 0 .. ((Len(yielded[r]) \div batch_size) - 1) :
                  LET batch == SubSeq(yielded[r], k * batch_size + 1, (k + 1) * batch_size)
                  IN  /\ \E j \in 1 .. Rows(r) : indices_batched[r][j] = batch
                      /\ SameHead(batch)

C3_Witness ==
    \E r \in Ranks :
        /\ iter_status[r] = "ok"
        /\ shuffle /\ num_heads = 2 /\ batch_size = 2 /\ num_replicas = 3
        /\ Len(padded[r]) > Rows(r)
        /\ Len(yielded[r]) >= 2 * batch_size
        /\ perm[r] # Range(Rows(r))

\* C4 (as stated): the padded order is the row order followed by a prefix of
\* itself and its length is the smallest multiple of R that is >= rows, for
\* every rows >= 1 and R >= 1; so every row is in the padded order.
C4_PaddedToMultiple ==
    \A r \in Ranks :
        (iter_status[r] # "none" /\ Rows(r) >= 1) =>
            /\ Len(perm[r]) = Rows(r)
            /\ Len(padded[r]) >= Rows(r)
            /\ padded[r] = perm[r] \o Prefix(perm[r], Len(padded[r]) - Rows(r))
            /\ Len(padded[r]) % num_replicas = 0
            /\ Len(padded[r]) < Rows(r) + num_replicas
            /\ \A j \in 0 .. (Rows(r) - 1) : \E p \in 1 .. Len(padded[r]) : padded[r][p] = j

\* C5: replicas iterating with the same seed + epoch compute the same row
\* order (the natural order when not shuffling); when all R replicas have
\* iterated one epoch, position p of the padded order is held by slot p div R
\* of replica p mod R's shard and by no other slot.
C5_SameOrderDisjointShards ==
    /\ \A r1, r2 \in Ranks :
          (iter_status[r1] # "none" /\ iter_status[r2] # "none" /\ epoch[r1] = epoch[r2]) =>
              (perm[r1] = perm[r2] /\ padded[r1] = padded[r2])
    /\ \A r \in Ranks :
          (iter_status[r] # "none" /\ ~shuffle) => perm[r] = Range(Rows(r))
    /\ (\A r \in Ranks : iter_status[r] = "ok" /\ epoch[r] = epoch[0]) =>
          /\ SumShards(num_replicas) = Len(padded[0])
          /\ \A p \in 0 .. (Len(padded[0]) - 1) :
                /\ Len(shard[p % num_replicas]) >= (p \div num_replicas) + 1
                /\ shard[p % num_replicas][(p \div num_replicas) + 1] = padded[0][p + 1]

C5_Witness ==
    /\ num_replicas = 3 /\ shuffle
    /\ \A r \in Ranks : iter_status[r] = "ok" /\ epoch[r] = 1
    /\ Len(padded[0]) >= 6
    /\ perm[0] # Range(Rows(0))

\* C6: replica r yields the rows at positions r, r+R, r+2R, ... of the padded
\* order, each flattened left to right; without shuffling the padded order
\* starts 0, 1, ..., rows-1.
C6_StripedShard ==
    \A r \in Ranks :
        iter_status[r] = "ok" =>
            /\ Len(shard[r]) = Cardinality({p \in 0 .. (Len(padded[r]) - 1) : p % num_replicas = r})
            /\ Len(yielded[r]) = batch_size * Len(shard[r])
            /\ \A k \in 0 .. (Len(yielded[r]) - 1) :
                  yielded[r][k + 1] =
                      indices_batched[r][padded[r][r + (k \div batch_size) * num_replicas + 1] + 1]
                                        [(k % batch_size) + 1]
            /\ ~shuffle => \A p \in 0 .. (Rows(r) - 1) : padded[r][p + 1] = p

C6_Witness ==
    \E r \in Ranks :
        /\ r = 1 /\ num_replicas = 2 /\ ~shuffle /\ batch_size = 2
        /\ iter_status[r] = "ok"
        /\ Len(shard[r]) >= 2
        /\ shard[r][1] = 1 /\ shard[r][2] = 3

\* C7: the table is H blocks in head order; block h holds h, h+H, h+2H, ...
\* ascending, cut into rows of width B; the indices left out are exactly the
\* last ((N/H) % B) * H of 0..N-1. N=12, H=2, B=3 gives the four rows below.
C7_TableLayout ==
    \A r \in Ranks :
        pc[r] = "ready" =>
            LET per == (dataset_len \div num_heads) \div batch_size
                kept == dataset_len - ((dataset_len \div num_heads) % batch_size) * num_heads
            IN  /\ Rows(r) = num_heads * per
                /\ \A h \in 0 .. (num_heads - 1) : \A j \in 0 .. (per - 1) :
                      /\ Len(indices_batched[r][h * per + j + 1]) = batch_size
                      /\ \A c \in 0 .. (batch_size - 1) :
                            indices_batched[r][h * per + j + 1][c + 1] =
                                h + num_heads * (j * batch_size + c)
                /\ {indices_batched[r][j][c] : j \in 1 .. Rows(r), c \in 1 .. batch_size}
                       = 0 .. (kept - 1)
                /\ (dataset_len = 12 /\ num_heads = 2 /\ batch_size = 3) =>
                       indices_batched[r] =
                           << <<0, 2, 4>>, <<6, 8, 10>>, <<1, 3, 5>>, <<7, 9, 11>> >>

C7_Witness ==
    \E r \in Ranks :
        /\ pc[r] = "ready"
        /\ dataset_len = 12 /\ num_heads = 2 /\ batch_size = 3
        /\ Rows(r) = 4

\* C8: when N is not a multiple of num_heads the constructor stops at its
\* assertion: no table is built and the sampler is never iterated.
C8_AssertBeforeTable ==
    \A r \in Ranks :
        dataset_len % num_heads # 0 =>
            /\ pc[r] \in {"new", "AssertionError"}
            /\ indices_batched[r] = << >>
            /\ iter_status[r] = "none"

C8_Witness ==
    \E r \in Ranks :
        /\ pc[r] = "AssertionError"
        /\ dataset_len = 3 /\ num_heads = 2

\* C9: a step that leaves an iteration result standing for a sampler changed
\* neither its epoch nor its table, and iterating again without set_epoch
\* yields the same sequence.
C9_IterIsPure ==
    [][\A r \in Ranks :
          iter_status'[r] # "none" =>
              /\ epoch'[r] = epoch[r]
              /\ indices_batched'[r] = indices_batched[r]
              /\ iter_status[r] = "ok" =>
                    (iter_status'[r] = "ok" /\ yielded'[r] = yielded[r])]_vars

C9_Witness ==
    \E r \in Ranks :
        /\ iter_status[r] = "ok"
        /\ shuffle /\ epoch[r] = 1
        /\ Len(yielded[r]) >= 4

\* ========================================================== test-loop claims
\* the number of points of the original cloud c (0-based id)
CloudPoints(c) ==
    IF proj_inds[c + 1].none THEN Len(possibilities[c + 1])
    ELSE Len(proj_inds[c + 1].inds)

\* C10 (as stated): on the test split, over the update_tests calls made for
\* one cloud id, a cloud whose coverage is full has had exactly one result
\* appended, also when further windows of it arrive after coverage is full,
\* and the result is as long as the cloud has points.
C10_OneCompletionPerCloud ==
    (split = "test" /\ tpc \in {"consume", "fetch", "done"} /\ curr_cloud_id >= 0
        /\ Len(possibilities[curr_cloud_id + 1]) >= 1) =>
        /\ completions <= 1
        /\ CoveredCount(possibilities[curr_cloud_id + 1])
               = Len(possibilities[curr_cloud_id + 1]) => completions = 1
        /\ \A k \in 1 .. Len(saved) :
              Len(saved[k].predict_labels) = CloudPoints(saved[k].cloud)

\* C11 (as stated): when the incoming cloud id differs from the tracked one,
\* the running probability and label buffers given to update_probs in that
\* call are all-zero buffers as long as the new cloud has points, whatever
\* the order in which cloud ids arrive and also when a cloud id comes back.
C11_FreshBuffersOnChange ==
    (tpc = "consume" /\ handed.changed) =>
        /\ handed.probs = Zeros(Len(possibilities[cloud_id + 1]))
        /\ handed.labels = Zeros(Len(possibilities[cloud_id + 1]))

\* the last element of a non-empty list
Last(list) == list[Len(list)]

\* C12: on the test split an update_tests call that returns has finalized the
\* cloud (one reprojected result appended, complete_infer set) exactly when
\* every point of the cloud's possibility map has a weight strictly above
\* end_threshold; one point at or below it, the threshold itself included,
\* keeps the cloud unfinished.
C12_CompleteIffAllAboveThreshold ==
    (split = "test" /\ tpc = "consume") =>
        LET this_possibility == possibilities[cloud_id + 1]
            all_above == \A i \in 1 .. Len(this_possibility) :
                            this_possibility[i] > end_threshold
        IN /\ all_above =>
                (complete_infer /\ Len(ori_test_probs) = 1 /\ Len(ori_test_labels) = 1)
           /\ ~all_above =>
                (~complete_infer /\ ori_test_probs = << >> /\ ori_test_labels = << >>)

C12_Witness ==
    /\ split = "test" /\ tpc = "consume"
    /\ possibilities[cloud_id + 1] = <<end_threshold + 1, end_threshold>>
    /\ window = {0, 1}
    /\ ~complete_infer

\* C13 (as stated): an update_tests call for a cloud whose possibility map is
\* missing or has no points ends in an IndexError, finalizes nothing and does
\* not report the cloud complete.
C13_EmptyMapIsFatal ==
    (tpc \in {"consume", "IndexError"}
        /\ (~IndexOk(possibilities, cloud_id) \/ Len(possibilities[cloud_id + 1]) = 0)) =>
        /\ tpc = "IndexError"
        /\ ~complete_infer
        /\ ori_test_probs = << >> /\ ori_test_labels = << >>

\* C14: when an update_tests call completes a cloud, the result it appends is
\* the accumulated buffer read through proj_inds, output[i] =
\* accumulated[proj_inds[i]], for scores and for labels; without proj_inds
\* the result equals the accumulated buffer.
C14_OutputIsGather ==
    (split = "test" /\ tpc = "consume" /\ complete_infer) =>
        LET proj == proj_inds[cloud_id + 1]
            probs == test_probs[curr_cloud_id + 1]
            labels == test_labels[curr_cloud_id + 1]
        IN IF proj.none
           THEN Last(ori_test_probs) = probs /\ Last(ori_test_labels) = labels
           ELSE /\ Len(Last(ori_test_probs)) = Len(proj.inds)
                /\ Len(Last(ori_test_labels)) = Len(proj.inds)
                /\ \A i \in 1 .. Len(proj.inds) :
                      /\ Last(ori_test_probs)[i] = probs[proj.inds[i] + 1]
                      /\ Last(ori_test_labels)[i] = labels[proj.inds[i] + 1]

C14_Witness ==
    /\ split = "test" /\ tpc = "consume" /\ complete_infer
    /\ ~proj_inds[cloud_id + 1].none
    /\ test_labels[curr_cloud_id + 1] = <<1, 2>>
    /\ Last(ori_test_labels) = <<2, 1, 1>>

\* C15: on the train and val splits no sequence of update_tests calls sets
\* complete_infer or appends a result, also when every weight is above the
\* threshold; the running buffers are still updated by update_probs.
C15_NoCompletionOffTest ==
    (split \in {"train", "val"}) =>
        /\ ~complete_infer
        /\ ori_test_probs = << >> /\ ori_test_labels = << >>
        /\ saved = << >>
        /\ tpc = "consume" =>
              \A q \in window :
                  /\ test_probs[curr_cloud_id + 1][q + 1] = 1
                  /\ test_labels[curr_cloud_id + 1][q + 1] = results

C15_Witness ==
    /\ split = "train" /\ tpc = "consume"
    /\ possibilities[cloud_id + 1] = <<end_threshold + 1, end_threshold + 1>>
    /\ window = {1}
    /\ test_labels[curr_cloud_id + 1][2] = 2
    /\ steps = MaxSteps

\* C16 (as stated): once the test loop has consumed the result of a completed
\* cloud, the session holds no accumulated score or label buffer for that
\* cloud.
C16_BuffersReleased ==
    (tpc = "fetch" /\ complete_infer) =>
        /\ ~IndexOk(test_probs, curr_cloud_id)
        /\ ~IndexOk(test_labels, curr_cloud_id)

\* ============================================================ training claims
\* C17 (as stated): in distributed mode the collectives the replicas enter
\* pair up, so no replica is left blocked in a barrier the others do not
\* enter and the run neither hangs nor fails in a collective; also when the
\* batch of one replica has an empty prediction tensor and the batches of
\* the others have not.
C17_BarriersPairUp ==
    \A r \in TrainRanks : rpc[r] \notin {"hung", "RuntimeError"}

\* C18: a training batch whose prediction score tensor is empty causes no
\* backward pass, no gradient clipping, no optimizer step, no loss appended
\* to any head, no metric update and no error; the loop goes on with its
\* next batch. The same holds for a validation batch and the validation
\* lists.
C18_DegenerateBatchIsSkipped ==
    [][\A r \in TrainRanks :
          (rpc[r] \in {"train_body", "valid_body"} /\ inputs[r].empty
              /\ rpc'[r] # rpc[r]) =>
             /\ optim'[r] = optim[r]
             /\ losses'[r] = losses[r]
             /\ valid_losses'[r] = valid_losses[r]
             /\ metric_train'[r] = metric_train[r]
             /\ metric_val'[r] = metric_val[r]
             /\ rpc[r] = "train_body" =>
                   rpc'[r] = (IF train_left[r] > 0 THEN "train" ELSE "sched")
             /\ rpc[r] = "valid_body" =>
                   rpc'[r] = (IF valid_left[r] > 0 THEN "valid"
                              ELSE IF distributed THEN "gather" ELSE "log")]_vars

C18_Witness ==
    /\ distributed /\ grad_clip
    /\ \E r \in TrainRanks :
          /\ rpc[r] = "sched" /\ train_epoch[r] = 0
          /\ train_left[r] = 0
          /\ optim[r] = [backward |-> 0, clip |-> 0, step |-> 0]
          /\ losses[r] = EmptyLists

\* the lists of ranks 1 .. R-1 for head h, one after the other in rank order
OthersInRankOrder(lists, h) ==
    Flatten([k \in 1 .. (world_size - 1) |-> lists[k][h]])

\* C19: the end-of-epoch reduction leaves at rank 0, for every head, its own
\* training and validation loss lists followed by those of ranks 1 .. R-1
\* in rank order, and metrics that are the sum over all replicas; the lists
\* of the other replicas do not change; and no replica is in epoch e + 1
\* before rank 0 has finished merging epoch e.
C19_RankZeroMerge ==
    /\ [][(rpc[0] = "merge" /\ rpc'[0] # "merge") =>
            /\ \A h \in TrainHeads :
                  /\ losses'[0][h] = losses[0][h] \o OthersInRankOrder(losses, h)
                  /\ valid_losses'[0][h] =
                         valid_losses[0][h] \o OthersInRankOrder(valid_losses, h)
                  /\ metric_train'[0][h] =
                         SumSeq([k \in 1 .. world_size |-> metric_train[k - 1][h]])
                  /\ metric_val'[0][h] =
                         SumSeq([k \in 1 .. world_size |-> metric_val[k - 1][h]])
            /\ \A r \in TrainRanks \ {0} :
                  /\ losses'[r] = losses[r] /\ valid_losses'[r] = valid_losses[r]
                  /\ metric_train'[r] = metric_train[r]
                  /\ metric_val'[r] = metric_val[r]]_vars
    /\ [](\A r \in TrainRanks :
            train_epoch[r] > train_epoch[0] =>
                (train_epoch[r] = train_epoch[0] + 1 /\ rpc[0] = "log"))

C19_Witness ==
    /\ rpc[0] = "epoch_barrier"
    /\ losses[0][0] = <<LossOf(0, 1), LossOf(1, 1), LossOf(2, 1)>>
    /\ valid_losses[0][1] = <<LossOf(1, 1), LossOf(2, 1)>>
    /\ metric_train[0][0] = 3

\* the steps from one position of the epoch loop to the next, as the order
\* training pass, scheduler step, validation pass, reduction, logging and
\* checkpointing allows them; a replica may also stop in a collective
PhaseSteps ==
    {<<"epoch_start", "train">>, <<"epoch_start", "done">>,
     <<"train", "train_body">>, <<"train_body", "train">>,
     <<"train_body", "batch_barrier">>, <<"train_body", "sched">>,
     <<"batch_barrier", "train">>, <<"batch_barrier", "sched">>,
     <<"sched", "valid">>,
     <<"valid", "valid_body">>, <<"valid_body", "valid">>,
     <<"valid_body", "gather">>, <<"valid_body", "log">>,
     <<"gather", "merge">>, <<"gather", "epoch_barrier">>,
     <<"merge", "epoch_barrier">>,
     <<"epoch_barrier", "log">>, <<"epoch_barrier", "epoch_start">>,
     <<"log", "epoch_start">>}
    \cup ({"batch_barrier", "gather", "epoch_barrier"} \X {"hung", "RuntimeError"})

C23_OnlyRankZeroWrites ==
    /\ [](distributed =>
            /\ handlers \subseteq {0}
            /\ \A i, j \in 1 .. Len(ckpts) : ckpts[i] = ckpts[j] => i = j)
    /\ [][(distributed /\ (logs' # logs \/ ckpts' # ckpts)) =>
            /\ rpc[0] = "log" /\ rpc'[0] # "log"
            /\ \A r \in TrainRanks \ {0} : rpc'[r] = rpc[r]
            /\ Len(ckpts') <= Len(ckpts) + 1]_vars

C23_Witness ==
    /\ distributed
    /\ handlers = {0}
    /\ ckpts = <<0, 1>>
    /\ logs # {}
    /\ rpc[1] = "done" /\ rpc[0] = "done"

\* C24: a training batch of head h whose prediction tensor is not empty
\* appends one loss to the training loss list of head h and updates the
\* training metric of head h; the lists and metrics of the other heads and
\* the validation lists and metrics stay as they are. A validation batch of
\* head h does the same on the validation side and takes no optimizer step.
C24_BatchTouchesOnlyItsHead ==
    [][\A r \in TrainRanks :
          (rpc[r] \in {"train_body", "valid_body"} /\ ~inputs[r].empty
              /\ rpc'[r] # rpc[r]) =>
             LET h == inputs[r].head
                 training == rpc[r] = "train_body"
                 lists == IF training THEN losses[r] ELSE valid_losses[r]
                 lists1 == IF training THEN losses'[r] ELSE valid_losses'[r]
                 metric == IF training THEN metric_train[r] ELSE metric_val[r]
                 metric1 == IF training THEN metric_train'[r] ELSE metric_val'[r]
             IN /\ Len(lists1[h]) = Len(lists[h]) + 1
                /\ SubSeq(lists1[h], 1, Len(lists[h])) = lists[h]
                /\ metric1[h] # metric[h]
                /\ \A g \in TrainHeads \ {h} :
                      lists1[g] = lists[g] /\ metric1[g] = metric[g]
                /\ training =>
                      (valid_losses'[r] = valid_losses[r] /\ metric_val'[r] = metric_val[r])
                /\ ~training =>
                      /\ losses'[r] = losses[r] /\ metric_train'[r] = metric_train[r]
                      /\ optim'[r] = optim[r]]_vars

C24_Witness ==
    \E r \in TrainRanks :
        /\ distributed /\ rpc[r] = "gather" /\ train_epoch[r] = 0
        /\ losses[r][1] = <<LossOf(r, 1)>> /\ losses[r][0] = << >>
        /\ metric_train[r] = [h \in TrainHeads |-> IF h = 1 THEN 1 ELSE 0]
        /\ valid_losses[r][0] = <<LossOf(r, 1)>> /\ valid_losses[r][1] = << >>
        /\ metric_val[r] = [h \in TrainHeads |-> IF h = 0 THEN 1 ELSE 0]

\* C28 (as stated): run_train runs every epoch of start_ep .. max_epoch once,
\* in increasing order, and then terminates: a replica that takes no further
\* step has left the epoch loop after its last epoch, with one scheduler
\* step per epoch behind it.
C28_EveryEpochRunsOnce ==
    \A r \in TrainRanks :
        rpc[r] \in {"done", "hung", "RuntimeError"} =>
            /\ rpc[r] = "done"
            /\ train_epoch[r] = MaxEpoch + 1
            /\ scheduler[r] = MaxEpoch + 1

\* C29: in a distributed run set_epoch reaches the training sampler only:
\* during the training pass the epoch of the training sampler is the epoch
\* of the loop, the epoch of the validation sampler stays 0, and so the
\* shuffled row order of the validation sampler is the same in every epoch.
C29_OnlyTrainSamplerGetsEpoch ==
    distributed =>
        \A r \in TrainRanks :
            /\ rpc[r] \in {"train", "train_body", "batch_barrier", "sched"} =>
                  sampler_epoch[r].train = train_epoch[r]
            /\ sampler_epoch[r].valid = 0
            /\ \A n \in 0 .. MaxBatch :
                  RandPerm(n, DefaultSeed + sampler_epoch[r].valid)
                      = RandPerm(n, DefaultSeed)

C29_Witness ==
    /\ distributed
    /\ \E r \in TrainRanks :
          /\ rpc[r] = "valid" /\ train_epoch[r] = 1
          /\ sampler_epoch[r] = [train |-> 1, valid |-> 0]


\* ============================================================ whole-run claims
\* the epochs save_ckpt was called with in this run
SavedEpochs == {saved_now[j] : j \in 1 .. Len(saved_now)}

\* C21: a checkpoint is saved at the end of epoch e exactly when e is a
\* multiple of save_ckpt_freq or e is max_epoch (so also after epoch 0 of a
\* run from scratch), and a run that gets through max_epoch has saved the
\* checkpoint of max_epoch, whatever save_ckpt_freq is.
C21_CkptCadence ==
    /\ \A i \in 1 .. Len(epochs_run) :
         LET e == epochs_run[i]
         IN e \in SavedEpochs <=> (e % ckpt_freq = 0 \/ e = max_epoch)
    /\ \A e \in SavedEpochs :
         /\ \E i \in 1 .. Len(epochs_run) : epochs_run[i] = e
         /\ Exists(disk, e) /\ ReadFile(disk, e).has_epoch /\ ReadFile(disk, e).epoch = e
    /\ (run_pc = "done" /\ start_ep <= max_epoch) => max_epoch \in SavedEpochs

C21_Witness ==
    /\ run_pc = "done" /\ ckpt_freq = 2 /\ max_epoch = 2
    /\ epochs_run = <<0, 1, 2>> /\ saved_now = <<0, 2>>


\* C22: loading a checkpoint that save_ckpt wrote at epoch e restores the
\* model, optimizer and scheduler states of the file and returns e + 1, so
\* the resumed run executes no epoch <= e; with no checkpoint path and an
\* empty checkpoint directory load_ckpt raises nothing, loads nothing and
\* returns 0.
C22_SaveLoadRoundTrip ==
    /\ [][(run_pc = "load_ckpt" /\ run_pc' # "load_ckpt") =>
            /\ (loaded' # NoCkpt /\ loaded'.has_epoch /\ loaded'.has_optim) =>
                 /\ loaded' \in disk
                 /\ <<model_state', optimizer_state', scheduler_state'>> =
                      <<loaded'.model, loaded'.optimizer, loaded'.scheduler>>
                 /\ run_pc' = "loop"
                 /\ start_ep' = loaded'.epoch + 1
            /\ (ckpt_path = NoPath /\ disk = {}) =>
                 /\ run_pc' = "loop"
                 /\ loaded' = NoCkpt
                 /\ start_ep' = 0
                 /\ <<model_state', optimizer_state', scheduler_state'>> =
                      <<model_state, optimizer_state, scheduler_state>>]_vars
    /\ [](loaded.has_epoch =>
            \A i \in 1 .. Len(epochs_run) : epochs_run[i] > loaded.epoch)

C22_Witness ==
    /\ runs = 2
    /\ loaded = SavedCkpt(0, 1, 1, 1)
    /\ start_ep = 1
    /\ epochs_run = <<1>>
    /\ <<model_state, optimizer_state, scheduler_state>> = <<2, 2, 2>>


\* C26: with an explicit checkpoint path that names no file, load_ckpt raises
\* FileNotFoundError before the model, optimizer or scheduler state is
\* touched, and that run_train executes no epoch and saves nothing.
C26_MissingPathRaisesFirst ==
    /\ [][(run_pc = "load_ckpt" /\ ckpt_path # NoPath /\ ~Exists(disk, ckpt_path)) =>
            /\ run_pc' = "FileNotFoundError"
            /\ <<model_state', optimizer_state', scheduler_state', loaded'>> =
                 <<model_state, optimizer_state, scheduler_state, loaded>>]_vars
    /\ [](run_pc = "FileNotFoundError" =>
            /\ ckpt_path # NoPath
            /\ <<model_state, optimizer_state, scheduler_state>> = <<0, 0, 0>>
            /\ loaded = NoCkpt
            /\ epochs_run = << >> /\ saved_now = << >>)
    /\ [][run_pc = "FileNotFoundError" =>
            /\ disk' = disk
            /\ run_pc' \in {"FileNotFoundError", "setup"}]_vars

C26_Witness ==
    /\ run_pc = "FileNotFoundError"
    /\ ckpt_path = 1
    /\ Exists(disk, 0) /\ ~Exists(disk, 1)


\* C27 (as stated): when distributed training is requested and the train or
\* validation split comes with a sampler, run_train raises
\* NotImplementedError during setup: no distributed sampler or loader is
\* built and no epoch starts.
C27_ExternalSamplerRejected ==
    (run_distributed /\ dataset_sampler /\ run_pc # "setup") =>
        /\ run_pc = "NotImplementedError"
        /\ ~samplers_built
        /\ epochs_run = << >>


\* C30: is_resume matters only when no checkpoint path is given. With no path
\* and is_resume false load_ckpt returns 0 and restores nothing even if the
\* directory holds a checkpoint; with no path and is_resume true it restores
\* the latest one; with the path of an existing file it restores that file
\* and returns its epoch + 1 (0 if the file has no epoch entry) whatever
\* is_resume is.
C30_ResumeFlagOnlyWithoutPath ==
    [][(run_pc = "load_ckpt" /\ run_pc' # "load_ckpt") =>
         /\ (ckpt_path = NoPath /\ ~is_resume) =>
              /\ run_pc' = "loop"
              /\ start_ep' = 0
              /\ loaded' = NoCkpt
              /\ <<model_state', optimizer_state', scheduler_state'>> =
                   <<model_state, optimizer_state, scheduler_state>>
         /\ (ckpt_path = NoPath /\ is_resume /\ disk # {}) =>
              /\ loaded' \in disk
              /\ \A f \in disk : f.name <= loaded'.name
         /\ (ckpt_path # NoPath /\ Exists(disk, ckpt_path)) =>
              /\ run_pc' = "loop"
              /\ loaded' \in disk
              /\ loaded'.name = ckpt_path
              /\ model_state' = loaded'.model
              /\ start_ep' = IF loaded'.has_epoch THEN loaded'.epoch + 1 ELSE 0]_vars

\* a directory with a checkpoint, no path, is_resume false: started from 0
C30_Witness ==
    /\ ckpt_path = NoPath /\ ~is_resume
    /\ run_pc = "loop" /\ epochs_run = << >>
    /\ disk # {}
    /\ start_ep = 0 /\ loaded = NoCkpt /\ model_state = 0


\* ============================================================ inference claims
\* C25 (as stated): run_inference hands the model output of every batch it
\* fetched to update_tests, and what it returns is the finalized pair
\* {predict_labels, predict_scores} of the cloud, one label per original
\* point.
C25_InferenceReturnsFinalized ==
    (infer_pc = "returned") =>
        /\ updates = infer_batches - infer_left
        /\ returned.kind = "inference_result"
        /\ ~proj_inds[1].none => Len(returned.predict_labels) = Len(proj_inds[1].inds)

====
